---------------------------- MODULE Spec2Model ----------------------------
(***************************************************************************)
(* Field structures, continuous layout resolution and bytes storage of     *)
(* pyiak_instr (src/src/pyiak_instr/types/store/_bin.py and                *)
(* src/src/pyiak_instr/types/store/bin/_pattern.py).                       *)
(*                                                                         *)
(* Python values are represented as follows: bytes/bytearray are sequences *)
(* of integers; an optional integer (None or int) is the empty set or a    *)
(* singleton set; a raised exception is the name of its class in a string, *)
(* "ok" is a normal return.                                                *)
(***************************************************************************)
EXTENDS Integers, Sequences, FiniteSets, TLC

(***************************************************************************)
(* Bounds of the model.                                                    *)
(***************************************************************************)
MaxFields == 3      \* fields in one storage pattern
MaxSize == 2        \* largest bytes_expected of a field pattern
MaxBuf == 5         \* longest buffer given to extract
MaxContent == 3     \* longest content given for one field
MaxOffset == 3      \* largest |start| / |stop| given to a field structure
TxTo == 3           \* Connection._tx_to in receive calls
RxTo == 2           \* Connection._rx_to in receive calls

(***************************************************************************)
(* Python helpers.                                                         *)
(***************************************************************************)
None == {}
Some(x) == {x}
Val(o) == CHOOSE x \in o : TRUE

Max(a, b) == IF a >= b THEN a ELSE b
Min(a, b) == IF a <= b THEN a ELSE b

\* index normalisation of slice(start, stop) on a sequence of length n
SliceLo(n, start) == IF start < 0 THEN Max(n + start, 0) ELSE Min(start, n)
SliceHi(n, stop) ==
    IF stop = None THEN n
    ELSE IF Val(stop) < 0 THEN Max(n + Val(stop), 0) ELSE Min(Val(stop), n)

\* seq[start:stop]
GetSlice(s, start, stop) ==
    SubSeq(s, SliceLo(Len(s), start) + 1, SliceHi(Len(s), stop))

\* seq[start:stop] = v   (bytearray slice assignment, step 1)
SetSlice(s, start, stop, v) ==
    LET lo == SliceLo(Len(s), start)
        hi == Max(SliceHi(Len(s), stop), lo)
    IN  SubSeq(s, 1, lo) \o v \o SubSeq(s, hi + 1, Len(s))

(***************************************************************************)
(* BytesFieldStructProtocol: construction (__post_init__).                 *)
(* A structure is [start, stop, bytes_expected, ws, default]; ws is        *)
(* word_bytesize, fixed by fmt.                                            *)
(***************************************************************************)
\* a raised exception (class and message) and the normal return
Exc(cls, msg) == [err |-> cls, msg |-> msg]
Ok == [err |-> "ok", msg |-> ""]

\* _verify_values_before_modifying without the test of stop == 0
verify_values_before_modifying_no_zero_stop(a) ==
    IF a.stop # None /\ a.bytes_expected > 0
    THEN Exc("TypeError", "'bytes_expected' or 'stop' setting not allowed")
    ELSE IF 0 > a.start /\ a.start > -a.bytes_expected
    THEN Exc("ValueError", "it will be out of bounds")
    ELSE Ok

\* _verify_values_before_modifying with the test of stop and bytes_expected
\* given together ahead of the test of stop == 0
verify_values_before_modifying_conflict_first(a) ==
    IF a.stop # None /\ a.bytes_expected > 0
    THEN Exc("TypeError", "'bytes_expected' or 'stop' setting not allowed")
    ELSE IF a.stop = Some(0)
    THEN Exc("ValueError", "'stop' can't be equal to zero")
    ELSE IF 0 > a.start /\ a.start > -a.bytes_expected
    THEN Exc("ValueError", "it will be out of bounds")
    ELSE Ok

verify_values_before_modifying(a) ==
    IF a.stop = Some(0)
    THEN Exc("ValueError", "'stop' can't be equal to zero")
    ELSE IF a.stop # None /\ a.bytes_expected > 0
    THEN Exc("TypeError", "'bytes_expected' or 'stop' setting not allowed")
    ELSE IF 0 > a.start /\ a.start > -a.bytes_expected
    THEN Exc("ValueError", "it will be out of bounds")
    ELSE Ok

\* _modify_values with `stop = self.bytes_expected` in place of
\* `stop = self.start + self.bytes_expected`
modify_values_stop_is_size(a) ==
    LET a1 == IF a.bytes_expected < 0
              THEN [a EXCEPT !.bytes_expected = 0] ELSE a
    IN  IF a1.bytes_expected > 0
        THEN [exc |-> Ok, s |-> [a1 EXCEPT !.stop = Some(a1.bytes_expected)]]
        ELSE IF a1.stop # None
        THEN [exc |-> Ok,
              s |-> IF ~(a1.start >= 0 /\ Val(a1.stop) < 0)
                    THEN [a1 EXCEPT !.bytes_expected = Val(a1.stop) - a1.start]
                    ELSE a1]
        ELSE IF a1.start <= 0 /\ a1.stop = None
        THEN [exc |-> Ok, s |-> [a1 EXCEPT !.bytes_expected = -a1.start]]
        ELSE [exc |-> Exc("AssertionError",
                          "impossible to modify start, stop and bytes_expected"),
              s |-> a1]

\* [exc, s]: s is the structure after the assignments
modify_values(a) ==
    LET a1 == IF a.bytes_expected < 0
              THEN [a EXCEPT !.bytes_expected = 0] ELSE a
    IN  IF a1.bytes_expected > 0
        THEN LET stop == a1.start + a1.bytes_expected
             IN  [exc |-> Ok,
                  s |-> IF stop # 0 THEN [a1 EXCEPT !.stop = Some(stop)]
                        ELSE a1]
        ELSE IF a1.stop # None
        THEN [exc |-> Ok,
              s |-> IF ~(a1.start >= 0 /\ Val(a1.stop) < 0)
                    THEN [a1 EXCEPT !.bytes_expected = Val(a1.stop) - a1.start]
                    ELSE a1]
        ELSE IF a1.start <= 0 /\ a1.stop = None
        THEN [exc |-> Ok, s |-> [a1 EXCEPT !.bytes_expected = -a1.start]]
        ELSE [exc |-> Exc("AssertionError",
                          "impossible to modify start, stop and bytes_expected"),
              s |-> a1]

verify_values_after_modifying(s) ==
    IF s.bytes_expected % s.ws # 0
    THEN Exc("ValueError",
             "'bytes_expected' does not match an integer word count")
    ELSE Ok

\* the result of constructing a structure from the arguments a:
\* [exc, s]; s is the constructed structure when exc = Ok
post_init(a) ==
    IF verify_values_before_modifying(a) # Ok
    THEN [exc |-> verify_values_before_modifying(a), s |-> a]
    ELSE LET m == modify_values(a)
         IN  IF m.exc # Ok THEN m
             ELSE [exc |-> verify_values_after_modifying(m.s), s |-> m.s]

is_dynamic(s) == s.bytes_expected = 0
has_default(s) == Len(s.default) # 0
words_expected(s) == s.bytes_expected \div s.ws

\* verify without the branch of the dynamic field
verify_length_only(s, raw) == Len(raw) = s.bytes_expected

verify(s, raw) ==
    IF is_dynamic(s) THEN Len(raw) % s.ws = 0
    ELSE Len(raw) = s.bytes_expected

slice_(s) == <<s.start, s.stop>>

(***************************************************************************)
(* Field patterns and the layout resolvers.                                *)
(* A field pattern is its keyword parameters _kw: [start, stop,            *)
(* bytes_expected, ws, default], where start, stop and bytes_expected are  *)
(* optional (None: the key is not in _kw).  for_subs is the sequence, in   *)
(* field order, of the keyword arguments the resolver prepares for each    *)
(* sub-pattern.                                                            *)
(***************************************************************************)
\* BytesFieldStructPatternABC.size
size(p) ==
    IF p.bytes_expected # None THEN Val(p.bytes_expected)
    ELSE LET start == IF p.start # None THEN Val(p.start) ELSE 0
             stop == p.stop
         IN  IF stop = None
             THEN IF start < 0 THEN -start ELSE 0
             ELSE IF (start >= 0 /\ Val(stop) > 0)
                     \/ (start < 0 /\ Val(stop) < 0)
             THEN Val(stop) - start
             ELSE 0

\* BytesFieldStructPatternABC.is_dynamic
pattern_is_dynamic(p) == size(p) <= 0

\* for_subs before the resolver ran: no keyword argument for any field
EmptyForSubs(P) == [i \in 1..Len(P) |-> [start |-> None, stop |-> None]]

\* ContinuousBytesStorageStructPatternABC._modify_before_dyn, the loop from
\* field i on; dyn = 0 stands for the returned None
RECURSIVE before_dyn_loop(_, _, _, _)
before_dyn_loop(P, i, start, kw) ==
    IF i > Len(P) THEN [dyn |-> 0, kw |-> kw]
    ELSE IF pattern_is_dynamic(P[i])
    THEN [dyn |-> i, kw |-> [kw EXCEPT ![i].start = Some(start)]]
    ELSE before_dyn_loop(P, i + 1, start + size(P[i]),
                         [kw EXCEPT ![i].start = Some(start)])

modify_before_dyn(P, for_subs) == before_dyn_loop(P, 1, 0, for_subs)

\* ContinuousBytesStorageStructPatternABC._modify_after_dyn, the loop from
\* field i down
RECURSIVE after_dyn_loop(_, _, _, _, _)
after_dyn_loop(P, dyn_name, i, start, kw) ==
    IF i < 1
    THEN [exc |-> Exc("AssertionError", "dynamic field not found"), kw |-> kw]
    ELSE IF pattern_is_dynamic(P[i])
    THEN IF i = dyn_name
         THEN [exc |-> Ok,
               kw |-> [kw EXCEPT ![i].stop =
                           IF start # 0 THEN Some(start) ELSE None]]
         ELSE [exc |-> Exc("TypeError", "two dynamic field not allowed"),
               kw |-> kw]
    ELSE after_dyn_loop(P, dyn_name, i - 1, start - size(P[i]),
                        [kw EXCEPT ![i].start = Some(start - size(P[i]))])

\* _modify_after_dyn with `start = -pattern.size` in place of
\* `start -= pattern.size`: every trailing field addressed from the end by
\* its own size alone
RECURSIVE after_dyn_loop_own_size(_, _, _, _, _)
after_dyn_loop_own_size(P, dyn_name, i, start, kw) ==
    IF i < 1
    THEN [exc |-> Exc("AssertionError", "dynamic field not found"), kw |-> kw]
    ELSE IF pattern_is_dynamic(P[i])
    THEN IF i = dyn_name
         THEN [exc |-> Ok,
               kw |-> [kw EXCEPT ![i].stop =
                           IF start # 0 THEN Some(start) ELSE None]]
         ELSE [exc |-> Exc("TypeError", "two dynamic field not allowed"),
               kw |-> kw]
    ELSE after_dyn_loop_own_size(P, dyn_name, i - 1, -size(P[i]),
                                 [kw EXCEPT ![i].start = Some(-size(P[i]))])

modify_after_dyn_own_size(P, dyn_name, for_subs) ==
    after_dyn_loop_own_size(P, dyn_name, Len(P), 0, for_subs)

modify_after_dyn(P, dyn_name, for_subs) ==
    after_dyn_loop(P, dyn_name, Len(P), 0, for_subs)

\* ContinuousBytesStorageStructPatternABC._modify_all: [exc, kw]
modify_all(P, for_subs) ==
    LET b == modify_before_dyn(P, for_subs)
    IN  IF b.dyn # 0 THEN modify_after_dyn(P, b.dyn, b.kw)
        ELSE [exc |-> Ok, kw |-> b.kw]

\* ContinuousBytesStoragePatternABC (_bin.py): the resolver works on
\* for_subs alone and reads the size from kw["bytes_expected"], here P[i]
RECURSIVE bin_before_dyn_loop(_, _, _, _)
bin_before_dyn_loop(P, i, start, kw) ==
    IF i > Len(P) THEN [dyn |-> 0, kw |-> kw]
    ELSE IF Val(P[i].bytes_expected) <= 0
    THEN [dyn |-> i, kw |-> [kw EXCEPT ![i].start = Some(start)]]
    ELSE LET stop == start + Val(P[i].bytes_expected)
         IN  bin_before_dyn_loop(P, i + 1, stop,
                 [kw EXCEPT ![i] = [start |-> Some(start),
                                    stop |-> Some(stop)]])

bin_modify_before_dyn(P, for_subs) == bin_before_dyn_loop(P, 1, 0, for_subs)

RECURSIVE bin_after_dyn_loop(_, _, _, _, _)
bin_after_dyn_loop(P, dyn_name, i, stop, kw) ==
    IF i < 1 THEN kw
    ELSE IF i = dyn_name
    THEN [kw EXCEPT ![i].stop = IF stop # 0 THEN Some(stop) ELSE None]
    ELSE LET start == stop - Val(P[i].bytes_expected)
         IN  bin_after_dyn_loop(P, dyn_name, i - 1, stop - start,
                 [kw EXCEPT ![i] = [start |-> Some(start),
                                    stop |-> IF stop # 0 THEN Some(stop)
                                             ELSE None]])

bin_modify_after_dyn(P, dyn_name, for_subs) ==
    bin_after_dyn_loop(P, dyn_name, Len(P), 0, for_subs)

\* ContinuousBytesStoragePatternABC._modify_all: [exc, kw]
bin_modify_all(P, for_subs) ==
    LET b == bin_modify_before_dyn(P, for_subs)
    IN  [exc |-> Ok,
         kw |-> IF b.dyn # 0 THEN bin_modify_after_dyn(P, b.dyn, b.kw)
                ELSE b.kw]

(***************************************************************************)
(* BytesStorageABC.  fields (_f) is the sequence of field structures in    *)
(* declared order, field i has the name i; c is the bytearray _c.  A dict  *)
(* of keyword arguments is a sequence of <<name, content>> pairs with      *)
(* distinct names, in insertion order.  Every operation returns            *)
(* [exc, c]: what it raised and the buffer it leaves behind.               *)
(***************************************************************************)
KwNames(kw) == {kw[k][1] : k \in 1..Len(kw)}
KwGet(kw, name) == kw[CHOOSE k \in 1..Len(kw) : kw[k][1] = name][2]

\* BytesStorageABC.__contains__
contains(fields, name) == name \in 1..Len(fields)

\* BytesFieldABC.content of the parser of field i
content(fields, c, i) == GetSlice(c, fields[i].start, fields[i].stop)

\* BytesStorageABC.__getitem__: the parser [name, struct] of the field name
getitem(fields, name) == [name |-> name, struct |-> fields[name]]

\* content of a parser with the slice taken from start and bytes_expected
parser_content_by_size(p, c) ==
    GetSlice(c, p.struct.start, Some(p.struct.start + p.struct.bytes_expected))

\* BytesFieldABC.content of a parser p of the storage with the buffer c:
\* self._storage.content[self._struct.slice_]
parser_content(p, c) == GetSlice(c, slice_(p.struct)[1], slice_(p.struct)[2])

RECURSIVE SumBytesExpected(_, _)
SumBytesExpected(fields, i) ==
    IF i > Len(fields) THEN 0
    ELSE fields[i].bytes_expected + SumBytesExpected(fields, i + 1)

\* BytesStorageABC.bytes_expected
bytes_expected(fields) == SumBytesExpected(fields, 1)

\* BytesStorageABC.is_dynamic
storage_is_dynamic(fields) == \E i \in 1..Len(fields) : is_dynamic(fields[i])

\* BytesStorageABC._encode_content for raw given as bytes: [exc, content]
encode_content(s, raw) ==
    IF ~verify(s, raw)
    THEN [exc |-> Exc("ValueError", "is not correct for the field"),
          content |-> raw]
    ELSE [exc |-> Ok, content |-> raw]

\* _check_fields_list with set(self._f).difference(fields) in place of the
\* symmetric difference: names that are no fields go unnoticed
check_fields_list_missing_only(fields, c, names) ==
    LET own == 1..Len(fields)
        diff == own \ names
    IN  {n \in diff :
            ~(contains(fields, n)
              /\ (has_default(fields[n])
                  \/ is_dynamic(fields[n])
                  \/ Len(content(fields, c, n)) # 0))}

\* BytesStorageABC._check_fields_list: the names left in diff
check_fields_list(fields, c, names) ==
    LET own == 1..Len(fields)
        diff == (own \ names) \cup (names \ own)
    IN  {n \in diff :
            ~(contains(fields, n)
              /\ (has_default(fields[n])
                  \/ is_dynamic(fields[n])
                  \/ Len(content(fields, c, n)) # 0))}

\* the loop of BytesStorageABC._set_all from field i on
RECURSIVE set_all_loop(_, _, _, _)
set_all_loop(fields, c, kw, i) ==
    IF i > Len(fields) THEN [exc |-> Ok, c |-> c]
    ELSE IF i \in KwNames(kw)
    THEN LET e == encode_content(fields[i], KwGet(kw, i))
         IN  IF e.exc # Ok THEN [exc |-> e.exc, c |-> c]
             ELSE set_all_loop(fields, c \o e.content, kw, i + 1)
    ELSE IF has_default(fields[i])
    THEN set_all_loop(fields, c \o fields[i].default, kw, i + 1)
    ELSE IF is_dynamic(fields[i])
    THEN set_all_loop(fields, c, kw, i + 1)
    ELSE [exc |-> Exc("AssertionError", "it is impossible to set the value"),
          c |-> c]

\* _set_all looping over the given keyword arguments in place of the
\* fields of the storage
RECURSIVE set_all_loop_kw_order(_, _, _, _)
set_all_loop_kw_order(fields, c, kw, k) ==
    IF k > Len(kw) THEN [exc |-> Ok, c |-> c]
    ELSE LET e == encode_content(fields[kw[k][1]], kw[k][2])
         IN  IF e.exc # Ok THEN [exc |-> e.exc, c |-> c]
             ELSE set_all_loop_kw_order(fields, c \o e.content, kw, k + 1)

set_all_kw_order(fields, c, kw) ==
    IF Len(c) # 0
    THEN [exc |-> Exc("AssertionError", "message must be empty"), c |-> c]
    ELSE IF check_fields_list(fields, c, KwNames(kw)) # {}
    THEN [exc |-> Exc("AttributeError", "missing or extra fields were found"),
          c |-> c]
    ELSE set_all_loop_kw_order(fields, c, kw, 1)

\* BytesStorageABC._set_all
set_all(fields, c, kw) ==
    IF Len(c) # 0
    THEN [exc |-> Exc("AssertionError", "message must be empty"), c |-> c]
    ELSE IF check_fields_list(fields, c, KwNames(kw)) # {}
    THEN [exc |-> Exc("AttributeError", "missing or extra fields were found"),
          c |-> c]
    ELSE set_all_loop(fields, c, kw, 1)

\* _extract with the buffer reset ahead of the length checks
extract_reset_first(fields, c, new) ==
    IF Len(new) < bytes_expected(fields)
    THEN [exc |-> Exc("ValueError", "bytes content too short"), c |-> << >>]
    ELSE IF ~storage_is_dynamic(fields) /\ Len(new) > bytes_expected(fields)
    THEN [exc |-> Exc("ValueError", "bytes content too long"), c |-> << >>]
    ELSE set_all(fields, << >>,
                 [i \in 1..Len(fields) |->
                     <<i, GetSlice(new, fields[i].start, fields[i].stop)>>])

\* BytesStorageABC._extract
extract(fields, c, new) ==
    IF Len(new) < bytes_expected(fields)
    THEN [exc |-> Exc("ValueError", "bytes content too short"), c |-> c]
    ELSE IF ~storage_is_dynamic(fields) /\ Len(new) > bytes_expected(fields)
    THEN [exc |-> Exc("ValueError", "bytes content too long"), c |-> c]
    ELSE set_all(fields,
                 IF Len(c) # 0 THEN << >> ELSE c,
                 [i \in 1..Len(fields) |->
                     <<i, GetSlice(new, fields[i].start, fields[i].stop)>>])

\* change with the slice assigned ahead of the verification of the content
change_assign_first(fields, c, name, raw) ==
    IF Len(c) = 0
    THEN [exc |-> Exc("TypeError", "message is empty"), c |-> c]
    ELSE IF ~contains(fields, name)
    THEN [exc |-> Exc("KeyError", "name"), c |-> c]
    ELSE [exc |-> encode_content(fields[name], raw).exc,
          c |-> SetSlice(c, fields[name].start, fields[name].stop, raw)]

\* change with the parser looked up ahead of the test for an empty message
change_lookup_first(fields, c, name, raw) ==
    IF ~contains(fields, name)
    THEN [exc |-> Exc("KeyError", "name"), c |-> c]
    ELSE IF Len(c) = 0
    THEN [exc |-> Exc("TypeError", "message is empty"), c |-> c]
    ELSE LET e == encode_content(fields[name], raw)
         IN  IF e.exc # Ok THEN [exc |-> e.exc, c |-> c]
             ELSE [exc |-> Ok,
                   c |-> SetSlice(c, fields[name].start, fields[name].stop,
                                  e.content)]

\* BytesStorageABC.change
change(fields, c, name, raw) ==
    IF Len(c) = 0
    THEN [exc |-> Exc("TypeError", "message is empty"), c |-> c]
    ELSE IF ~contains(fields, name)
    THEN [exc |-> Exc("KeyError", "name"), c |-> c]
    ELSE LET e == encode_content(fields[name], raw)
         IN  IF e.exc # Ok THEN [exc |-> e.exc, c |-> c]
             ELSE [exc |-> Ok,
                   c |-> SetSlice(c, fields[name].start, fields[name].stop,
                                  e.content)]

\* the loop of BytesStorageABC._set over the keyword arguments from k on
RECURSIVE set_loop(_, _, _, _)
set_loop(fields, c, kw, k) ==
    IF k > Len(kw) THEN [exc |-> Ok, c |-> c]
    ELSE LET r == change(fields, c, kw[k][1], kw[k][2])
         IN  IF r.exc # Ok THEN r
             ELSE set_loop(fields, r.c, kw, k + 1)

\* BytesStorageABC._set
set(fields, c, kw) ==
    IF Len(c) = 0 THEN set_all(fields, c, kw)
    ELSE set_loop(fields, c, kw, 1)

\* encode without the test for both: the message wins over the fields
encode_message_first(fields, c, new, kw) ==
    IF Len(new) # 0 THEN extract(fields, c, new)
    ELSE IF Len(kw) # 0 THEN set(fields, c, kw)
    ELSE [exc |-> Exc("TypeError", "message is empty"), c |-> c]

\* BytesStorageABC.encode
encode(fields, c, new, kw) ==
    IF Len(new) # 0 /\ Len(kw) # 0
    THEN [exc |-> Exc("TypeError", "takes a message or fields (both given)"),
          c |-> c]
    ELSE IF Len(new) # 0 THEN extract(fields, c, new)
    ELSE IF Len(kw) # 0 THEN set(fields, c, kw)
    ELSE [exc |-> Exc("TypeError", "message is empty"), c |-> c]

(***************************************************************************)
(* PatternABC.get of a field pattern and the get of the storage pattern.   *)
(***************************************************************************)
\* PatternABC._only_auto_parameters, and that of
\* ContinuousBytesStoragePatternABC
only_auto_parameters == {}
continuous_only_auto_parameters == {"start", "stop"}

\* _get_parameters_dict without the loop over _only_auto_parameters
get_parameters_dict_no_auto_check(p, auto, changes_allowed, additions) ==
    LET given == {k \in DOMAIN additions : additions[k] # None}
        intersection == {k \in given : p[k] # None}
        parameters == [k \in DOMAIN p |->
                          IF k \in given THEN additions[k] ELSE p[k]]
    IN  IF given # {} /\ ~changes_allowed /\ intersection # {}
        THEN [exc |-> Exc("SyntaxError", "keyword argument(s) repeated"),
              parameters |-> p, kw |-> p]
        ELSE [exc |-> Ok, parameters |-> parameters, kw |-> p]

\* _get_parameters_dict with parameters = self._kw in place of the copy:
\* the additions are written to the pattern
get_parameters_dict_no_copy(p, auto, changes_allowed, additions) ==
    LET given == {k \in DOMAIN additions : additions[k] # None}
        intersection == {k \in given : p[k] # None}
        parameters == [k \in DOMAIN p |->
                          IF k \in given THEN additions[k] ELSE p[k]]
    IN  IF given # {} /\ ~changes_allowed /\ intersection # {}
        THEN [exc |-> Exc("SyntaxError", "keyword argument(s) repeated"),
              parameters |-> p, kw |-> p]
        ELSE IF \E auto_par \in auto :
                    auto_par \in DOMAIN parameters
                    /\ parameters[auto_par] # None
        THEN [exc |-> Exc("TypeError", "can only be set automatically"),
              parameters |-> parameters, kw |-> parameters]
        ELSE [exc |-> Ok, parameters |-> parameters, kw |-> parameters]

\* PatternABC._get_parameters_dict of a pattern with the keyword parameters
\* p for the keyword arguments additions (None: not given):
\* [exc, parameters, kw], kw being self._kw after the call
get_parameters_dict(p, auto, changes_allowed, additions) ==
    LET given == {k \in DOMAIN additions : additions[k] # None}
        intersection == {k \in given : p[k] # None}
        parameters == [k \in DOMAIN p |->
                          IF k \in given THEN additions[k] ELSE p[k]]
    IN  IF given # {} /\ ~changes_allowed /\ intersection # {}
        THEN [exc |-> Exc("SyntaxError", "keyword argument(s) repeated"),
              parameters |-> p, kw |-> p]
        ELSE IF \E auto_par \in auto :
                    auto_par \in DOMAIN parameters
                    /\ parameters[auto_par] # None
        THEN [exc |-> Exc("TypeError", "can only be set automatically"),
              parameters |-> parameters, kw |-> p]
        ELSE [exc |-> Ok, parameters |-> parameters, kw |-> p]

\* PatternABC.get of a field pattern: the target structure is constructed
\* from the joined parameters, a missing one taking the dataclass default:
\* [exc, s, kw]
pattern_get(p, changes_allowed, additions) ==
    LET d == get_parameters_dict(p, only_auto_parameters, changes_allowed,
                                 additions)
        par == d.parameters
        t == post_init([start |-> IF par.start # None
                                  THEN Val(par.start) ELSE 0,
                        stop |-> par.stop,
                        bytes_expected |-> IF par.bytes_expected # None
                                           THEN Val(par.bytes_expected) ELSE 0,
                        ws |-> par.ws,
                        default |-> par.default])
    IN  IF d.exc # Ok THEN [exc |-> d.exc, s |-> par, kw |-> d.kw]
        ELSE [exc |-> t.exc, s |-> t.s, kw |-> d.kw]

\* the structures of the fields i.. of a storage, each got from its
\* sub-pattern with the resolved keyword arguments: [exc, fields, sub_p],
\* sub_p being the sub-patterns after the calls
RECURSIVE get_fields_loop(_, _, _, _, _)
get_fields_loop(P, changes_allowed, kw, i, fields) ==
    IF i > Len(P) THEN [exc |-> Ok, fields |-> fields, sub_p |-> P]
    ELSE LET r == pattern_get(P[i], changes_allowed, kw[i])
             Q == [P EXCEPT ![i] = r.kw]
         IN  IF r.exc # Ok THEN [exc |-> r.exc, fields |-> << >>, sub_p |-> Q]
             ELSE get_fields_loop(Q, changes_allowed, kw, i + 1,
                                  Append(fields, r.s))

NotConfiguredYet == Exc("NotConfiguredYet", "not configured yet")

\* get() of a continuous storage pattern with the sub-patterns P:
\* [exc, kw, fields, sub_p]
storage_get(P, changes_allowed) ==
    IF Len(P) = 0
    THEN [exc |-> NotConfiguredYet, kw |-> << >>, fields |-> << >>,
          sub_p |-> P]
    ELSE LET m == modify_all(P, EmptyForSubs(P))
         IN  IF m.exc # Ok
             THEN [exc |-> m.exc, kw |-> m.kw, fields |-> << >>, sub_p |-> P]
             ELSE LET g == get_fields_loop(P, changes_allowed, m.kw, 1, << >>)
                  IN  [exc |-> g.exc, kw |-> m.kw, fields |-> g.fields,
                       sub_p |-> g.sub_p]

(***************************************************************************)
(* StaticField of pyinstr_iakoster.communication: a field of one word.  A  *)
(* field is [start_byte, ws, content, def]; contents are given as bytes.   *)
(***************************************************************************)
\* Field._validate_content with exp = 1: [exc, content]
validate_content(fld, new_content) ==
    IF new_content = << >> THEN [exc |-> Ok, content |-> new_content]
    ELSE IF Len(new_content) % fld.ws # 0
    THEN [exc |-> Exc("FloatWordsCountError", ""), content |-> new_content]
    ELSE IF Len(new_content) \div fld.ws # 1
    THEN [exc |-> Exc("PartialFieldError", ""), content |-> new_content]
    ELSE [exc |-> Ok, content |-> new_content]

\* StaticField.set: [exc, fld]
static_set(fld, new_content) ==
    IF new_content = << >> THEN [exc |-> Ok, fld |-> fld]
    ELSE IF fld.content # << >> /\ new_content # fld.content
    THEN [exc |-> Exc("ValueError", "different from the new content"),
          fld |-> fld]
    ELSE LET v == validate_content(fld, new_content)
         IN  IF v.exc # Ok THEN [exc |-> v.exc, fld |-> fld]
             ELSE [exc |-> Ok, fld |-> [fld EXCEPT !.content = v.content]]

\* StaticField.__init__(start_byte, fmt, default): BaseField.__init__ with
\* content and default b"", Field.__init__ with the default b"" of
\* SingleField.__init__, then self.set(default)
static_init(start_byte, ws, default) ==
    static_set([start_byte |-> start_byte, ws |-> ws, content |-> << >>,
                def |-> << >>],
               default)

\* Field.extract: set(message[self._slice]), the slice being one word from
\* start_byte
field_extract(fld, message) ==
    IF Len(message) = 0
    THEN [exc |-> Exc("ValueError", "the incoming message is empty"),
          fld |-> fld]
    ELSE static_set(fld, GetSlice(message, fld.start_byte,
                                  Some(fld.start_byte + fld.ws)))

\* Field.reset_to_default
reset_to_default(fld) == [fld EXCEPT !.content = fld.def]

(***************************************************************************)
(* Connection._send.  What receive() gives is a reply [from, empty, emark, *)
(* codes]: the address it came from, whether it has no bytes, whether      *)
(* emark.match finds the error mark in it, and the codes of its response   *)
(* fields.  Time is counted in calls of receive(), each taking one unit.   *)
(***************************************************************************)
\* Connection._validate_bytes_message: the code
validate_bytes_message(bytes_required, rx) ==
    IF bytes_required /\ rx.emark THEN "ERROR" ELSE "OK"

\* Connection._validate_message: the code, or "codes" for the list of the
\* codes that are not all equal
validate_message(bytes_required, rx) ==
    IF Len(rx.codes) # 0
    THEN IF Len(rx.codes) = 1 THEN rx.codes[1]
         ELSE IF \E k \in 2..Len(rx.codes) : rx.codes[k] # rx.codes[1]
         THEN "codes"
         ELSE rx.codes[1]
    ELSE IF ~bytes_required /\ rx.emark THEN "ERROR"
    ELSE "OK"

\* receive() raised TimeoutError
TimedOut == [from |-> "timeout", empty |-> TRUE, emark |-> FALSE,
             codes |-> << >>]

\* the body of the inner loop without the test of the address
send_received_any_address(bytes_required, rx) ==
    IF rx = TimedOut THEN "continue"
    ELSE IF rx.empty THEN "continue"
    ELSE IF validate_bytes_message(bytes_required, rx) = "ERROR"
    THEN "continue"
    ELSE IF validate_message(bytes_required, rx) = "OK" THEN "return"
    ELSE IF validate_message(bytes_required, rx) = "WAIT" THEN "wait"
    ELSE "continue"

\* what the body of the inner loop of _send does with what receive() gave:
\* "return", "wait" (receive_start is set anew) or "continue"
send_received(bytes_required, rx) ==
    IF rx = TimedOut THEN "continue"
    ELSE IF rx.empty THEN "continue"
    ELSE IF rx.from # "dst" THEN "continue"
    ELSE IF validate_bytes_message(bytes_required, rx) = "ERROR"
    THEN "continue"
    ELSE IF validate_message(bytes_required, rx) = "OK" THEN "return"
    ELSE IF validate_message(bytes_required, rx) = "WAIT" THEN "wait"
    ELSE "continue"

(***************************************************************************)
(* PatternABC and MetaPatternABC.  A pattern is [tn, kw, sub_p]: typename, *)
(* the keyword parameters _kw (a record of optional values, None: the key  *)
(* is not in _kw) and the sub-patterns _sub_p, a sequence of               *)
(* <<name, pattern>> in the order they were configured.                    *)
(***************************************************************************)
\* MetaPatternABC.__init__(typename, name, **kwargs)
meta_init(typename, name, kwargs) ==
    [tn |-> typename,
     kw |-> [name |-> Some(name), kwarg |-> kwargs.kwarg,
             start |-> kwargs.start],
     sub_p |-> << >>]

\* MetaPatternABC.configure(**patterns)
configure(p, patterns) == [p EXCEPT !.sub_p = patterns]

\* PatternABC.__init_kwargs__: dict(typename=self._tn, **self._kw)
init_kwargs(p) == [typename |-> p.tn, kw |-> p.kw]

\* PatternABC.__eq__ of two patterns
pattern_eq(p, other) == init_kwargs(p) = init_kwargs(other)

\* EditablePatternABC.add on the parameters kw: [exc, kw]
pattern_add(kw, key, value) ==
    IF kw[key] # None
    THEN [exc |-> Exc("KeyError", "parameter in pattern already"), kw |-> kw]
    ELSE [exc |-> Ok, kw |-> [kw EXCEPT ![key] = Some(value)]]

\* EditablePatternABC.pop: [exc, kw, ret], dict.pop raising KeyError for a
\* key that is not in the dict
pattern_pop(kw, key) ==
    IF kw[key] = None
    THEN [exc |-> Exc("KeyError", "key"), kw |-> kw, ret |-> None]
    ELSE [exc |-> Ok, kw |-> [kw EXCEPT ![key] = None], ret |-> kw[key]]

\* __setitem__ without the test of the key: a plain dict assignment
pattern_setitem_unchecked(kw, name, value) ==
    [exc |-> Ok, kw |-> [kw EXCEPT ![name] = Some(value)]]

\* EditablePatternABC.__setitem__: [exc, kw]
pattern_setitem(kw, name, value) ==
    IF kw[name] = None
    THEN [exc |-> Exc("KeyError", "not in parameters"), kw |-> kw]
    ELSE [exc |-> Ok, kw |-> [kw EXCEPT ![name] = Some(value)]]

\* a dict as the sequence of its <<key, value>> in insertion order:
\* d[key] = value, d[key], list(d)
DictSet(d, key, value) ==
    IF \E i \in 1..Len(d) : d[i][1] = key
    THEN [i \in 1..Len(d) |-> IF d[i][1] = key THEN <<key, value>> ELSE d[i]]
    ELSE Append(d, <<key, value>>)
DictGet(d, key) == d[CHOOSE i \in 1..Len(d) : d[i][1] = key][2]
DictKeys(d) == [i \in 1..Len(d) |-> d[i][1]]

\* {**d, **{n: p.__init_kwargs__() for n, p in sub_p.items()}} from the
\* i-th sub-pattern on
RECURSIVE sub_p_init_kwargs(_, _, _)
sub_p_init_kwargs(d, sub, i) ==
    IF i > Len(sub) THEN d
    ELSE sub_p_init_kwargs(DictSet(d, sub[i][1], init_kwargs(sub[i][2])),
                           sub, i + 1)

\* no section written yet
NoFile == [section |-> "", pars |-> << >>]

\* RWConfig.set({name: pars}) after the section was removed, and
\* RWConfig.get(name, option)
cfg_set(name, pars) == [section |-> name, pars |-> pars]
cfg_get(file, option) == DictGet(file.pars, option)

\* write without the test of _sub_p
pattern_write_unconfigured(p, file) ==
    [exc |-> Ok,
     file |-> cfg_set(Val(p.kw.name),
                      sub_p_init_kwargs(<< <<Val(p.kw.name),
                                             init_kwargs(p)>> >>,
                                        p.sub_p, 1))]

\* BytesStoragePatternABC.write of the pattern p to the file: [exc, file]
pattern_write(p, file) ==
    IF Len(p.sub_p) = 0 THEN [exc |-> NotConfiguredYet, file |-> file]
    ELSE [exc |-> Ok,
          file |-> cfg_set(Val(p.kw.name),
                           sub_p_init_kwargs(<< <<Val(p.kw.name),
                                                  init_kwargs(p)>> >>,
                                             p.sub_p, 1))]

\* cls(**kwargs) of a storage pattern and _sub_p_type(**kwargs) of a field
\* pattern, kwargs being a dict read from the file: name is a required
\* argument of MetaPatternABC.__init__
meta_init_kwargs(kwargs) ==
    IF "name" \notin DOMAIN kwargs.kw \/ kwargs.kw.name = None
    THEN [exc |-> Exc("TypeError", "missing required argument name"),
          p |-> [tn |-> kwargs.typename, kw |-> kwargs.kw, sub_p |-> << >>]]
    ELSE [exc |-> Ok,
          p |-> [tn |-> kwargs.typename, kw |-> kwargs.kw, sub_p |-> << >>]]
sub_p_type(kwargs) ==
    [tn |-> kwargs.typename, kw |-> kwargs.kw, sub_p |-> << >>]

\* list.pop(list.index(name))
PopName(opts, name) ==
    LET i == CHOOSE k \in 1..Len(opts) :
                 opts[k] = name /\ \A j \in 1..(k - 1) : opts[j] # name
    IN  [k \in 1..(Len(opts) - 1) |-> IF k < i THEN opts[k] ELSE opts[k + 1]]

\* BytesStoragePatternABC.read(path, name) of a file whose section name
\* was written: [exc, p]
pattern_read(file, name) ==
    LET opts == PopName(DictKeys(file.pars), name)
        storage == meta_init_kwargs(cfg_get(file, name))
    IN  IF storage.exc # Ok THEN storage
        ELSE [exc |-> Ok,
              p |-> configure(storage.p,
                              [k \in 1..Len(opts) |->
                                  <<opts[k],
                                    sub_p_type(cfg_get(file, opts[k]))>>])]

(***************************************************************************)
(* Inputs.                                                                 *)
(***************************************************************************)
\* word_bytesize of the formats U8 and U16
WordSizes == {1, 2}

\* the keyword parameters of a field pattern of a continuous storage
FieldKw(be, ws, default) ==
    [start |-> None, stop |-> None, bytes_expected |-> Some(be),
     ws |-> ws, default |-> default]

\* field patterns of the storages: dynamic fields of one-byte and two-byte
\* words, a fixed field without default, with a default of its own length
\* and with a default of another length
D1 == FieldKw(0, 1, << >>)
D2 == FieldKw(0, 2, << >>)
F1 == FieldKw(1, 1, << >>)
F1d == FieldKw(1, 1, <<9>>)
F2d == FieldKw(2, 1, <<9>>)

\* the storage patterns the storage operations are run on: the dynamic
\* field alone, first, in the middle and last, no dynamic field, two
\* dynamic fields
StoragePatterns ==
    { <<D1>>, <<D2, F1>>, <<F1, D2, F1>>, <<F1d, D1, F1>>, <<F1, D1, F2d>>,
      <<F1d, F1, F2d>>, <<F1, D1>>, <<D1, F1, D2>> }

\* every field list of the layout resolver: sizes -1..MaxSize (dynamic
\* when <= 0), either word size
LayoutFieldPatterns ==
    {FieldKw(be, ws, << >>) : be \in (-1)..MaxSize, ws \in WordSizes}
LayoutPatterns == UNION {[1..n -> LayoutFieldPatterns] : n \in 1..MaxFields}

\* buffers handed to extract: n distinct bytes
Buf(n) == [i \in 1..n |-> 100 + i]
Bufs == {Buf(n) : n \in 0..MaxBuf}

\* buffers of other bytes, for an extract after an extract
OtherBuf(n) == [i \in 1..n |-> 200 + i]
OtherBufs == {OtherBuf(n) : n \in 1..MaxBuf}

\* contents handed for the field called name
Content(name, n) == [i \in 1..n |-> 10 * name + i]
ContentLens == 0..MaxContent

\* names used in calls on a storage: its fields and one unknown name
CallNames(fields) == 1..(Len(fields) + 1)

\* lengths of the contents given by keyword: those of the fixed fields
KwLens == {1, 2}

\* keyword arguments of encode(**fields): one or two distinct names
Kwargs(fields) ==
    {<< <<a, Content(a, n)>> >> : a \in CallNames(fields), n \in KwLens}
    \cup {<< <<a[1], Content(a[1], n[1])>>, <<a[2], Content(a[2], n[2])>> >> :
            a \in {x \in CallNames(fields) \X CallNames(fields) : x[1] # x[2]},
            n \in KwLens \X KwLens}

\* encode() as it can be called: fields, a message, both or neither
EncodeCalls(fields) ==
    ({<< >>} \X Kwargs(fields))
    \cup ({<< >>, Buf(MaxSize)} \X {<< >>, << <<1, Content(1, 1)>> >>})

\* the keyword parameters of a field pattern on its own: each of start,
\* stop and bytes_expected given or not
FieldKws ==
    [start : {None} \cup {Some(x) : x \in (-MaxOffset)..MaxOffset},
     stop : {None} \cup {Some(x) : x \in (-MaxOffset)..MaxOffset},
     bytes_expected : {None} \cup {Some(x) : x \in (-1)..MaxOffset},
     ws : WordSizes,
     default : {<< >>}]

\* arguments of a field structure
StructArgs ==
    [start : (-MaxOffset)..MaxOffset,
     stop : {None} \cup {Some(x) : x \in (-MaxOffset)..MaxOffset},
     bytes_expected : (-1)..MaxOffset,
     ws : WordSizes,
     default : {<< >>}]

(***************************************************************************)
(* State.                                                                  *)
(***************************************************************************)
\* typenames, names and the extra keyword of storage patterns
TypeNames == {"basic", "continuous"}
PatternNames == {"cbs", "f0"}
KwargValues == {None, Some(1)}

\* the keyword arguments of a storage pattern: none, an ordinary one, and
\* start, which a continuous storage pattern only sets automatically
StorageKwargs ==
    {[kwarg |-> k, start |-> None] : k \in KwargValues}
    \cup {[kwarg |-> Some(1), start |-> Some(0)]}

\* the keyword arguments of a get: overrides of kwarg and of start
Additions == [kwarg : {None, Some(2)}, start : {None, Some(1)}]

\* the field pattern of typename "basic" with the keyword parameters kw
FieldPattern(kw) == [tn |-> "basic", kw |-> kw, sub_p |-> << >>]

\* sub-patterns handed to configure: none, one field, two fields in either
\* order, a field called like a storage pattern
SubPatternSets ==
    { << >>,
      << <<"f0", FieldPattern(F1)>> >>,
      << <<"f0", FieldPattern(D1)>> >>,
      << <<"f0", FieldPattern(F1)>>, <<"f1", FieldPattern(D1)>> >>,
      << <<"f1", FieldPattern(D1)>>, <<"f0", FieldPattern(F1)>> >>,
      << <<"cbs", FieldPattern(F1)>>, <<"f1", FieldPattern(D1)>> >> }

\* the two pattern objects
PatternObjects == {"a", "b"}

VARIABLES
    st,        \* the last construction of a field structure: [args, exc, s]
               \* and the last content verified by it: [raw, verified]
    sub_p,     \* MetaPatternABC._sub_p: the configured field patterns
    for_subs,  \* the keyword arguments the layout resolver last prepared
    f,         \* BytesStorageABC._f of the storage got from the pattern
    c,         \* BytesStorageABC._c
    pt,        \* two storage patterns a and b ([tn, kw, sub_p]: _tn, _kw,
               \* _sub_p), the written file, and the last result on them
    parser,    \* a field parser got from the storage: [name, struct]
    con,       \* Connection._send: where it is (pc), the time since
               \* transmit_start and receive_start (tx_el, rx_el), the
               \* count of transmissions, what receive() last gave (rx) and
               \* the response returned (ans)
    ep,        \* an editable pattern: its _kw, and the last call on it
               \* with what it returned or raised: [kw, key, value, ret, exc]
    sf,        \* a StaticField: [start_byte, ws, content, def] (_st_byte,
               \* _word_bsize, _content, _def) and the last argument arg
    op,        \* the last operation
    exc        \* what the last operation raised

vars == <<st, pt, sub_p, for_subs, f, c, parser, con, ep, sf, op, exc>>

NoStruct == [start |-> 0, stop |-> None, bytes_expected |-> 0, ws |-> 1,
             default |-> << >>]

\* no pattern object yet, no result yet
NoPattern == [tn |-> "none",
              kw |-> [name |-> None, kwarg |-> None, start |-> None],
              sub_p |-> << >>]
\* the codes of the response fields of a reply
CodeLists == { << >>, <<"OK">>, <<"WAIT">>, <<"ERROR">>, <<"OK", "OK">>,
               <<"OK", "ERROR">> }

\* what receive() can give
Replies == [from : {"dst", "other"}, empty : BOOLEAN, emark : BOOLEAN,
            codes : CodeLists]

\* no _send called yet
NoSend == [pc |-> "idle", bytes_required |-> FALSE, tx_el |-> 0, rx_el |-> 0,
           transmitted |-> 0, rx |-> TimedOut, ans |-> TimedOut]

\* the parameter names and values of an editable pattern
EditKeys == {"start", "stop", "bytes_expected"}
EditValues == {0, 1, 2}

\* an editable pattern without parameters, nothing called on it
NoEdit == [kw |-> [k \in EditKeys |-> None], key |-> "", value |-> 0,
           ret |-> None, exc |-> Ok]

\* contents and defaults given to a StaticField, messages it extracts from
StaticContents == UNION {[1..n -> {1, 2}] : n \in 0..MaxSize}
StaticMessages == UNION {[1..n -> {1, 2}] : n \in 0..MaxContent}

\* no StaticField constructed yet
NoStatic == [start_byte |-> 0, ws |-> 0, content |-> << >>, def |-> << >>,
             arg |-> << >>]

\* no parser got yet
NoParser == [name |-> 0, struct |-> NoStruct]

NoAdditions == [kwarg |-> None, start |-> None]
NoResult == [exc |-> Ok, eq |-> FALSE, changes_allowed |-> FALSE,
             additions |-> NoAdditions, parameters |-> NoPattern.kw,
             for_subs |-> << >>, fields |-> << >>]

Init ==
    /\ st = [args |-> NoStruct, exc |-> Ok, s |-> NoStruct,
             raw |-> << >>, verified |-> FALSE]
    /\ parser = NoParser
    /\ con = NoSend
    /\ ep = NoEdit
    /\ sf = NoStatic
    /\ pt = [a |-> NoPattern, b |-> NoPattern, file |-> NoFile,
             res |-> NoResult]
    /\ sub_p = << >>
    /\ for_subs = << >>
    /\ f = << >>
    /\ c = << >>
    /\ op = "init"
    /\ exc = Ok

\* BytesFieldStructProtocol(**a)
Construct(a) ==
    /\ st' = [args |-> a, exc |-> post_init(a).exc, s |-> post_init(a).s,
              raw |-> << >>, verified |-> FALSE]
    /\ op' = "construct"
    /\ exc' = post_init(a).exc
    /\ UNCHANGED <<sf, ep, con, parser, pt, sub_p, for_subs, f, c>>

\* p = BytesFieldStructPatternABC(typename="basic", **kw); p.get()
FieldGet(kw) ==
    /\ LET r == pattern_get(kw, FALSE, [start |-> None, stop |-> None])
       IN  /\ st' = [args |-> kw, exc |-> r.exc, s |-> r.s,
                     raw |-> << >>, verified |-> FALSE]
           /\ exc' = r.exc
    /\ pt' = [pt EXCEPT !.a = FieldPattern(kw)]
    /\ op' = "field_get"
    /\ UNCHANGED <<sf, ep, con, parser, sub_p, for_subs, f, c>>

\* verify(raw) of the constructed field structure
Verify(raw) ==
    /\ op \in {"construct", "verify"}
    /\ st.exc = Ok
    /\ st' = [st EXCEPT !.raw = raw, !.verified = verify(st.s, raw)]
    /\ op' = "verify"
    /\ exc' = Ok
    /\ UNCHANGED <<sf, ep, con, parser, pt, sub_p, for_subs, f, c>>

\* MetaPatternABC.configure
Configure(P) ==
    /\ sub_p = << >>
    /\ sub_p' = P
    /\ op' = "configure"
    /\ exc' = Ok
    /\ UNCHANGED <<sf, ep, con, parser, pt, st, for_subs, f, c>>

\* get(changes_allowed) of the storage pattern: a new, empty storage or an
\* exception
Get(changes_allowed) ==
    /\ LET r == storage_get(sub_p, changes_allowed)
       IN  /\ f' = r.fields
           /\ for_subs' = r.kw
           /\ sub_p' = r.sub_p
           /\ exc' = r.exc
    /\ c' = << >>
    /\ parser' = NoParser
    /\ op' = "get"
    /\ UNCHANGED <<sf, ep, con, pt, st>>

\* ContinuousBytesStoragePatternABC._modify_all on the configured patterns
ModifyAllBin ==
    /\ sub_p # << >>
    /\ f = << >>
    /\ LET r == bin_modify_all(sub_p, EmptyForSubs(sub_p))
       IN  /\ for_subs' = r.kw
           /\ exc' = r.exc
    /\ op' = "bin_modify_all"
    /\ UNCHANGED <<sf, ep, con, parser, pt, st, sub_p, f, c>>

Extract(new) ==
    /\ f # << >>
    /\ LET r == extract(f, c, new)
       IN  /\ c' = r.c
           /\ exc' = r.exc
    /\ op' = "extract"
    /\ UNCHANGED <<sf, ep, con, parser, pt, st, sub_p, for_subs, f>>

Change(name, raw) ==
    /\ f # << >>
    /\ LET r == change(f, c, name, raw)
       IN  /\ c' = r.c
           /\ exc' = r.exc
    /\ op' = "change"
    /\ UNCHANGED <<sf, ep, con, parser, pt, st, sub_p, for_subs, f>>

Encode(new, kw) ==
    /\ f # << >>
    /\ LET r == encode(f, c, new, kw)
       IN  /\ c' = r.c
           /\ exc' = r.exc
    /\ op' = "encode"
    /\ UNCHANGED <<sf, ep, con, parser, pt, st, sub_p, for_subs, f>>

\* parser = storage[name]
GetItem(name) ==
    /\ contains(f, name)
    /\ parser' = getitem(f, name)
    /\ op' = "getitem"
    /\ exc' = Ok
    /\ UNCHANGED <<sf, ep, con, pt, st, sub_p, for_subs, f, c>>

\* _send(msg, emark) is called; emark.bytes_required is bytes_required
SendStart(bytes_required) ==
    /\ con.pc \in {"idle", "returned", "raised"}
    /\ con' = [NoSend EXCEPT !.pc = "outer",
                             !.bytes_required = bytes_required]
    /\ op' = "send"
    /\ exc' = Ok
    /\ UNCHANGED <<sf, ep, parser, pt, st, sub_p, for_subs, f, c>>

\* the test of the outer loop: transmit and go on to receive, or raise
\* ConnectionError
SendTransmit ==
    /\ con.pc = "outer"
    /\ IF con.tx_el < TxTo
       THEN /\ con' = [con EXCEPT !.pc = "inner",
                                  !.transmitted = @ + 1,
                                  !.rx_el = 0]
            /\ exc' = Ok
       ELSE /\ con' = [con EXCEPT !.pc = "raised"]
            /\ exc' = Exc("ConnectionError", "time is up")
    /\ op' = "send_transmit"
    /\ UNCHANGED <<sf, ep, parser, pt, st, sub_p, for_subs, f, c>>

\* the test of the inner loop fails: back to the outer loop
SendReceiveTimeUp ==
    /\ con.pc = "inner"
    /\ ~(con.rx_el < RxTo)
    /\ con' = [con EXCEPT !.pc = "outer"]
    /\ op' = "send_time_up"
    /\ exc' = Ok
    /\ UNCHANGED <<sf, ep, parser, pt, st, sub_p, for_subs, f, c>>

\* the body of the inner loop: receive() gives rx after one unit of time
SendReceive(rx) ==
    /\ con.pc = "inner"
    /\ con.rx_el < RxTo
    /\ LET todo == send_received(con.bytes_required, rx)
           tx_el == Min(con.tx_el + 1, TxTo + RxTo)
       IN  con' = [con EXCEPT
                      !.rx = rx,
                      !.tx_el = tx_el,
                      !.rx_el = IF todo = "wait" THEN 0 ELSE @ + 1,
                      !.pc = IF todo = "return" THEN "returned" ELSE @,
                      !.ans = IF todo = "return" THEN rx ELSE @]
    /\ op' = "send_receive"
    /\ exc' = Ok
    /\ UNCHANGED <<sf, ep, parser, pt, st, sub_p, for_subs, f, c>>

\* pattern.add(key, value)
EditAdd(key, value) ==
    /\ LET r == pattern_add(ep.kw, key, value)
       IN  /\ ep' = [kw |-> r.kw, key |-> key, value |-> value,
                     ret |-> None, exc |-> r.exc]
           /\ exc' = r.exc
    /\ op' = "pattern_add"
    /\ UNCHANGED <<sf, con, parser, pt, st, sub_p, for_subs, f, c>>

\* pattern.pop(key)
EditPop(key) ==
    /\ LET r == pattern_pop(ep.kw, key)
       IN  /\ ep' = [kw |-> r.kw, key |-> key, value |-> 0,
                     ret |-> r.ret, exc |-> r.exc]
           /\ exc' = r.exc
    /\ op' = "pattern_pop"
    /\ UNCHANGED <<sf, con, parser, pt, st, sub_p, for_subs, f, c>>

\* pattern[key] = value
EditSetItem(key, value) ==
    /\ LET r == pattern_setitem(ep.kw, key, value)
       IN  /\ ep' = [kw |-> r.kw, key |-> key, value |-> value,
                     ret |-> None, exc |-> r.exc]
           /\ exc' = r.exc
    /\ op' = "pattern_setitem"
    /\ UNCHANGED <<sf, con, parser, pt, st, sub_p, for_subs, f, c>>

\* StaticField(start_byte=start_byte, fmt=fmt, default=default)
StaticInit(start_byte, ws, default) ==
    /\ sf = NoStatic
    /\ LET r == static_init(start_byte, ws, default)
       IN  /\ r.exc = Ok
           /\ sf' = [start_byte |-> r.fld.start_byte, ws |-> r.fld.ws,
                     content |-> r.fld.content, def |-> r.fld.def,
                     arg |-> default]
    /\ op' = "static_init"
    /\ exc' = Ok
    /\ UNCHANGED <<ep, con, parser, pt, st, sub_p, for_subs, f, c>>

\* field.set(content)
StaticSet(new_content) ==
    /\ sf # NoStatic
    /\ LET r == static_set(sf, new_content)
       IN  /\ sf' = [r.fld EXCEPT !.arg = new_content]
           /\ exc' = r.exc
    /\ op' = "static_set"
    /\ UNCHANGED <<ep, con, parser, pt, st, sub_p, for_subs, f, c>>

\* field.extract(message)
StaticExtract(message) ==
    /\ sf # NoStatic
    /\ LET r == field_extract(sf, message)
       IN  /\ sf' = [r.fld EXCEPT !.arg = message]
           /\ exc' = r.exc
    /\ op' = "static_extract"
    /\ UNCHANGED <<ep, con, parser, pt, st, sub_p, for_subs, f, c>>

\* field.reset_to_default()
StaticReset ==
    /\ sf # NoStatic
    /\ sf' = [reset_to_default(sf) EXCEPT !.arg = << >>]
    /\ op' = "static_reset"
    /\ exc' = Ok
    /\ UNCHANGED <<ep, con, parser, pt, st, sub_p, for_subs, f, c>>

\* w = MetaPatternABC(typename, name, **kwargs)
PatternInit(w, typename, name, kwargs) ==
    /\ pt[w] = NoPattern
    /\ pt' = [pt EXCEPT ![w] = meta_init(typename, name, kwargs)]
    /\ op' = "pattern_init"
    /\ exc' = Ok
    /\ UNCHANGED <<sf, ep, con, parser, st, sub_p, for_subs, f, c>>

\* w.configure(**patterns)
PatternConfigure(w, patterns) ==
    /\ pt[w] # NoPattern
    /\ pt' = [pt EXCEPT ![w] = configure(pt[w], patterns)]
    /\ op' = "pattern_configure"
    /\ exc' = Ok
    /\ UNCHANGED <<sf, ep, con, parser, st, sub_p, for_subs, f, c>>

\* a == b
PatternEq ==
    /\ pt.a # NoPattern /\ pt.b # NoPattern
    /\ pt' = [pt EXCEPT !.res = [NoResult EXCEPT
                                     !.eq = pattern_eq(pt.a, pt.b)]]
    /\ op' = "pattern_eq"
    /\ exc' = Ok
    /\ UNCHANGED <<sf, ep, con, parser, st, sub_p, for_subs, f, c>>

\* a._get_parameters_dict(changes_allowed, additions), a being a continuous
\* storage pattern
PatternGetParameters(changes_allowed, additions) ==
    /\ pt.a # NoPattern
    /\ LET d == get_parameters_dict(pt.a.kw, continuous_only_auto_parameters,
                                    changes_allowed, additions)
       IN  /\ pt' = [pt EXCEPT !.a.kw = d.kw,
                               !.res = [NoResult EXCEPT
                                   !.exc = d.exc,
                                   !.changes_allowed = changes_allowed,
                                   !.additions = additions,
                                   !.parameters = d.parameters]]
           /\ exc' = d.exc
    /\ op' = "pattern_get_parameters"
    /\ UNCHANGED <<sf, ep, con, parser, st, sub_p, for_subs, f, c>>

\* a.get(changes_allowed): the layout resolved and the fields of the new
\* storage, or an exception
PatternGet(changes_allowed) ==
    /\ pt.a # NoPattern
    /\ LET P == [i \in 1..Len(pt.a.sub_p) |-> pt.a.sub_p[i][2].kw]
           r == storage_get(P, changes_allowed)
       IN  /\ pt' = [pt EXCEPT
                        !.a.sub_p = [i \in 1..Len(pt.a.sub_p) |->
                                        <<pt.a.sub_p[i][1],
                                          [pt.a.sub_p[i][2] EXCEPT
                                              !.kw = r.sub_p[i]]>>],
                        !.res = [NoResult EXCEPT
                                    !.exc = r.exc,
                                    !.changes_allowed = changes_allowed,
                                    !.for_subs = r.kw,
                                    !.fields = r.fields]]
           /\ exc' = r.exc
    /\ op' = "pattern_get"
    /\ UNCHANGED <<sf, ep, con, parser, st, sub_p, for_subs, f, c>>

\* a.write(path)
PatternWrite ==
    /\ pt.a # NoPattern
    /\ LET r == pattern_write(pt.a, pt.file)
       IN  /\ pt' = [pt EXCEPT !.file = r.file,
                               !.res = [NoResult EXCEPT !.exc = r.exc]]
           /\ exc' = r.exc
    /\ op' = "pattern_write"
    /\ UNCHANGED <<sf, ep, con, parser, st, sub_p, for_subs, f, c>>

\* b = read(path, name) of the file a was just written to, name being the
\* name of a
PatternRead ==
    /\ op = "pattern_write" /\ exc = Ok
    /\ LET r == pattern_read(pt.file, pt.file.section)
       IN  /\ pt' = [pt EXCEPT !.b = IF r.exc = Ok THEN r.p ELSE @,
                               !.res = [NoResult EXCEPT !.exc = r.exc]]
           /\ exc' = r.exc
    /\ op' = "pattern_read"
    /\ UNCHANGED <<sf, ep, con, parser, st, sub_p, for_subs, f, c>>

\* the storage operations on the storage patterns
Next ==
    \/ \E P \in StoragePatterns : Configure(P)
    \/ \E changes_allowed \in BOOLEAN : Get(changes_allowed)
    \/ \E new \in Bufs : Extract(new)
    \/ \E name \in CallNames(f), n \in ContentLens :
           Change(name, Content(name, n))
    \/ \E call \in EncodeCalls(f) : Encode(call[1], call[2])

Spec == Init /\ [][Next]_vars

\* the storage operations with a field parser held across them
NextView ==
    \/ \E P \in StoragePatterns : Configure(P)
    \/ \E changes_allowed \in BOOLEAN : Get(changes_allowed)
    \/ \E name \in 1..MaxFields : GetItem(name)
    \/ \E new \in Bufs \cup OtherBufs : Extract(new)
    \/ \E name \in CallNames(f), n \in ContentLens :
           Change(name, Content(name, n))
    \/ \E call \in EncodeCalls(f) : Encode(call[1], call[2])

SpecView == Init /\ [][NextView]_vars

\* the editing of the parameters of a pattern
NextEdit ==
    \/ \E key \in EditKeys, value \in EditValues : EditAdd(key, value)
    \/ \E key \in EditKeys : EditPop(key)
    \/ \E key \in EditKeys, value \in EditValues : EditSetItem(key, value)

SpecEdit == Init /\ [][NextEdit]_vars

\* a StaticField and the calls on it
NextStatic ==
    \/ \E start_byte \in {0, 1}, ws \in WordSizes,
          default \in StaticContents :
           StaticInit(start_byte, ws, default)
    \/ \E new_content \in StaticContents : StaticSet(new_content)
    \/ \E message \in StaticMessages : StaticExtract(message)
    \/ StaticReset

SpecStatic == Init /\ [][NextStatic]_vars

\* Connection._send and the remote side
NextSend ==
    \/ \E bytes_required \in BOOLEAN : SendStart(bytes_required)
    \/ SendTransmit
    \/ SendReceiveTimeUp
    \/ \E rx \in Replies \cup {TimedOut} : SendReceive(rx)

SpecSend == Init /\ [][NextSend]_vars

\* _send runs on: every test and every receive() that is due happens
SpecSendFair ==
    /\ SpecSend
    /\ WF_vars(SendTransmit)
    /\ WF_vars(SendReceiveTimeUp)
    /\ WF_vars(\E rx \in Replies \cup {TimedOut} : SendReceive(rx))

\* layout resolution and extraction on every field list
NextLayout ==
    \/ \E P \in LayoutPatterns : Configure(P)
    \/ \E changes_allowed \in BOOLEAN : Get(changes_allowed)
    \/ ModifyAllBin
    \/ \E new \in Bufs : Extract(new)

SpecLayout == Init /\ [][NextLayout]_vars

\* construction of field structures
NextStruct ==
    \/ \E a \in StructArgs : Construct(a)
    \/ \E n \in ContentLens : Verify(Content(1, n))

SpecStruct == Init /\ [][NextStruct]_vars

\* field patterns and the field structures got from them
NextField == \E kw \in FieldKws : FieldGet(kw)

SpecField == Init /\ [][NextField]_vars

\* patterns: construction, configuration, comparison
NextPattern ==
    \/ \E w \in PatternObjects, typename \in TypeNames,
          name \in PatternNames, kwargs \in StorageKwargs :
           PatternInit(w, typename, name, kwargs)
    \/ \E w \in PatternObjects, patterns \in SubPatternSets :
           PatternConfigure(w, patterns)
    \/ PatternEq

SpecPattern == Init /\ [][NextPattern]_vars

\* the use of one continuous storage pattern
NextPatternUse ==
    \/ \E name \in PatternNames, kwargs \in StorageKwargs :
           PatternInit("a", "continuous", name, kwargs)
    \/ \E patterns \in SubPatternSets : PatternConfigure("a", patterns)
    \/ \E changes_allowed \in BOOLEAN, additions \in Additions :
           PatternGetParameters(changes_allowed, additions)
    \/ \E changes_allowed \in BOOLEAN : PatternGet(changes_allowed)
    \/ PatternWrite
    \/ PatternRead

SpecPatternUse == Init /\ [][NextPatternUse]_vars

(***************************************************************************)
(* Properties.                                                             *)
(***************************************************************************)
\* the number of dynamic field patterns of P
NumDyn(P) == Cardinality({i \in 1..Len(P) : pattern_is_dynamic(P[i])})

\* the field contents of the fields i.. read from c, laid end to end
RECURSIVE ConcatContents(_, _, _)
ConcatContents(fields, buf, i) ==
    IF i > Len(fields) THEN << >>
    ELSE content(fields, buf, i) \o ConcatContents(fields, buf, i + 1)

\* the sum of the sizes of the field patterns i..j of P
RECURSIVE SumSizes(_, _, _)
SumSizes(P, i, j) == IF i > j THEN 0 ELSE size(P[i]) + SumSizes(P, i + 1, j)

RefStart(P, d, i) ==
    IF d = 0 \/ i <= d THEN SumSizes(P, 1, i - 1)
    ELSE -SumSizes(P, i, Len(P))
RefStop(P, d, i) ==
    IF i = d
    THEN IF d = Len(P) THEN None ELSE Some(RefStart(P, d, d + 1))
    ELSE IF RefStart(P, d, i) + size(P[i]) = 0 THEN None
    ELSE Some(RefStart(P, d, i) + size(P[i]))

\* the index of the one dynamic field pattern of P, 0 when there is none
DynIndex(P) ==
    IF NumDyn(P) = 0 THEN 0
    ELSE CHOOSE i \in 1..Len(P) : pattern_is_dynamic(P[i])

\* C2: for a field list with one dynamic field or none, the keyword
\* arguments prepared by a layout resolver are the reference layout: the
\* start of every field, the stop of the dynamic field, and the stop of a
\* fixed field wherever the resolver sets it.
C2_ReferenceLayout ==
    (op \in {"get", "bin_modify_all"} /\ NumDyn(sub_p) <= 1) =>
        \A i \in 1..Len(sub_p) :
            /\ for_subs[i].start = Some(RefStart(sub_p, DynIndex(sub_p), i))
            /\ (i = DynIndex(sub_p) \/ for_subs[i].stop # None) =>
                   for_subs[i].stop = RefStop(sub_p, DynIndex(sub_p), i)

\* C3: resolving a field list with two or more dynamic fields raises and
\* produces no storage; with at most one dynamic field that error is not
\* raised.
TwoDynamic == Exc("TypeError", "two dynamic field not allowed")

C3_TwoDynamicRejected ==
    op \in {"get", "bin_modify_all"} =>
        /\ NumDyn(sub_p) >= 2 => (exc # Ok /\ f = << >>)
        /\ NumDyn(sub_p) <= 1 => exc # TwoDynamic

\* C5: constructing a field structure with start > 0, stop omitted and
\* bytes_expected <= 0 succeeds with a dynamic field of slice (start, None).
C5_OpenEndedDynamic ==
    (op = "construct" /\ st.args.start > 0 /\ st.args.stop = None
     /\ st.args.bytes_expected <= 0) =>
        /\ st.exc = Ok
        /\ st.s.bytes_expected = 0
        /\ st.s.stop = None
        /\ slice_(st.s) = <<st.args.start, None>>


\* C4: on a populated storage a successful change(name, v) makes the field
\* name hold v, leaves the content of every other field as it was, and the
\* buffer is the field contents laid end to end in declared order.
C4_ChangeFrame ==
    [][(op' = "change" /\ exc' = Ok) =>
       \A name \in CallNames(f), n \in ContentLens :
        Change(name, Content(name, n)) =>
            /\ content(f, c', name) = Content(name, n)
            /\ \A j \in 1..Len(f) :
                   j # name => content(f, c', j) = content(f, c, j)
            /\ ConcatContents(f, c', 1) = c']_vars

TooShort == Exc("ValueError", "bytes content too short")
TooLong == Exc("ValueError", "bytes content too long")

\* C6: extract(content) raises ValueError when content is shorter than the
\* sum of the fields' bytes_expected and, on a storage without a dynamic
\* field, when it is longer; neither length error is raised otherwise, so a
\* storage with a dynamic field has no upper limit; after either error the
\* storage content is what it was.
C6_ExtractLength ==
    [][op' = "extract" =>
       \A new \in Bufs :
        Extract(new) =>
            /\ Len(new) < bytes_expected(f) =>
                   (exc'.err = "ValueError" /\ c' = c)
            /\ (~storage_is_dynamic(f) /\ Len(new) > bytes_expected(f)) =>
                   (exc'.err = "ValueError" /\ c' = c)
            /\ exc' \in {TooShort, TooLong} =>
                   /\ c' = c
                   /\ \/ Len(new) < bytes_expected(f)
                      \/ ~storage_is_dynamic(f)
                         /\ Len(new) > bytes_expected(f)]_vars

\* a populated storage without a dynamic field refused a longer buffer, and
\* kept its content
C6_Witness ==
    /\ op = "extract" /\ exc = TooLong
    /\ ~storage_is_dynamic(f)
    /\ Len(c) = bytes_expected(f) /\ Len(c) > 0

\* C7: extract either succeeds and the content is the new buffer, or raises
\* and the content is what it was before the call.
C7_ExtractAtomic ==
    [][op' = "extract" =>
       \A new \in Bufs :
        Extract(new) =>
            \/ exc' = Ok /\ c' = new
            \/ exc' # Ok /\ c' = c]_vars

\* C8: encode(**fields) that raises leaves the buffer as it was, on an empty
\* and on a populated storage.
C8_EncodeAllOrNothing ==
    [][(op' = "encode" /\ exc' # Ok) =>
       \A call \in EncodeCalls(f) :
        (call[1] = << >> /\ call[2] # << >> /\ Encode(call[1], call[2]))
            => c' = c]_vars

\* C9: on a populated storage change(name, content) with content that
\* fails the verification of the field raises ValueError, and after any
\* failed change the buffer is unchanged.
C9_InvalidChange ==
    [][op' = "change" =>
       \A name \in CallNames(f), n \in ContentLens :
        Change(name, Content(name, n)) =>
            /\ (Len(c) # 0 /\ contains(f, name)
                /\ ~verify(f[name], Content(name, n))) =>
                   exc'.err = "ValueError"
            /\ exc' # Ok => c' = c]_vars

\* a populated storage with a dynamic field of two-byte words refused a
\* change
C9_Witness ==
    /\ op = "change" /\ exc.err = "ValueError"
    /\ Len(c) # 0
    /\ \E i \in 1..Len(f) : is_dynamic(f[i]) /\ f[i].ws = 2

\* what encode(**kw) is to build on an empty storage from field i on: the
\* supplied content, else the default, else nothing, in declared order
RECURSIVE Built(_, _, _)
Built(fields, kw, i) ==
    IF i > Len(fields) THEN << >>
    ELSE (IF i \in KwNames(kw) THEN KwGet(kw, i)
          ELSE IF has_default(fields[i]) THEN fields[i].default
          ELSE << >>) \o Built(fields, kw, i + 1)

\* C10: on an empty storage a successful encode(**fields) builds, in
\* declared field order, the supplied content of each supplied field, the
\* default of each omitted field that has one and nothing for an omitted
\* dynamic field.
C10_EncodeBuilds ==
    [][(op' = "encode" /\ Len(c) = 0 /\ exc' = Ok) =>
       \A call \in EncodeCalls(f) :
        (call[1] = << >> /\ call[2] # << >> /\ Encode(call[1], call[2]))
            => c' = Built(f, call[2], 1)]_vars

\* encode built a buffer from the default of the first field, nothing for
\* the dynamic field and the supplied content of the last field
C10_Witness ==
    /\ op = "encode" /\ exc = Ok
    /\ sub_p = <<F1d, D1, F1>>
    /\ c = F1d.default \o Content(3, 1)

\* C11: on an empty storage encode(**fields) raises AttributeError exactly
\* when the names given omit a field that has no default and is not
\* dynamic, or hold a name that is no field of the storage; the storage
\* then stays empty.
C11_MissingOrExtra ==
    [][(op' = "encode" /\ Len(c) = 0) =>
       \A call \in EncodeCalls(f) :
        (call[1] = << >> /\ call[2] # << >> /\ Encode(call[1], call[2])) =>
            /\ exc'.err = "AttributeError" <=>
                   \/ \E i \in 1..Len(f) :
                          /\ i \notin KwNames(call[2])
                          /\ ~has_default(f[i])
                          /\ ~is_dynamic(f[i])
                   \/ \E n \in KwNames(call[2]) : n \notin 1..Len(f)
            /\ exc'.err = "AttributeError" => c' = << >>]_vars

\* encode was refused on an empty storage of three fields for its names
C11_Witness ==
    /\ op = "encode" /\ exc.err = "AttributeError"
    /\ Len(f) = 3 /\ c = << >>

\* C12: the construction of a field structure raises whenever stop is 0,
\* stop is given together with a positive bytes_expected,
\* 0 > start > -bytes_expected, or the bytes_expected the construction
\* arrives at is no multiple of the word size.
C12_ConstructionRejects ==
    (op = "construct"
     /\ \/ st.args.stop = Some(0)
        \/ st.args.stop # None /\ st.args.bytes_expected > 0
        \/ 0 > st.args.start /\ st.args.start > -st.args.bytes_expected
        \/ st.s.bytes_expected % st.s.ws # 0) =>
        st.exc # Ok

\* a structure of two-byte words was refused for its odd bytes_expected,
\* which was derived from start and stop
C12_Witness ==
    /\ op = "construct"
    /\ st.args.ws = 2 /\ st.args.bytes_expected = 0 /\ st.args.stop # None
    /\ st.s.bytes_expected % 2 = 1
    /\ st.exc = Exc("ValueError",
                    "'bytes_expected' does not match an integer word count")

\* C13: in every constructed fixed field structure stop and bytes_expected
\* agree: stop - start = bytes_expected when stop is not None, and
\* start = -bytes_expected when stop is None.
C13_StopAgreesWithSize ==
    (op = "construct" /\ st.exc = Ok /\ ~is_dynamic(st.s)) =>
        /\ st.s.stop # None => Val(st.s.stop) - st.s.start = st.s.bytes_expected
        /\ st.s.stop = None => st.s.start = -st.s.bytes_expected

\* a structure of two bytes that starts three bytes before the end was
\* constructed from start and bytes_expected, and stops one byte before
\* the end
C13_Witness ==
    /\ op = "construct" /\ st.exc = Ok
    /\ st.args.start = -3 /\ st.args.bytes_expected = 2 /\ st.args.stop = None
    /\ st.s.stop = Some(-1)

\* C14: verify(content) is true exactly when len(content) is
\* bytes_expected, for a fixed field, and exactly when len(content) is a
\* multiple of the word size, for a dynamic field; empty content is valid
\* for every dynamic field and for no fixed field.
C14_Verify ==
    op = "verify" =>
        /\ st.s.bytes_expected # 0 =>
               (st.verified <=> Len(st.raw) = st.s.bytes_expected)
        /\ st.s.bytes_expected = 0 =>
               (st.verified <=> \E k \in 0..Len(st.raw) :
                                    Len(st.raw) = k * st.s.ws)
        /\ st.raw = << >> => (st.verified <=> st.s.bytes_expected = 0)

\* a dynamic field of two-byte words accepted a content of two bytes
C14_Witness ==
    /\ op = "verify" /\ st.verified
    /\ st.s.bytes_expected = 0 /\ st.s.ws = 2 /\ Len(st.raw) = 2

\* the sub-patterns as a mapping from names to patterns
SubPatternMap(p) == {p.sub_p[k] : k \in 1..Len(p.sub_p)}

\* C15: two patterns compare equal exactly when their typenames, their
\* keyword parameters and their configured sub-patterns are equal.
C15_PatternEquality ==
    op = "pattern_eq" =>
        (pt.res.eq <=> /\ pt.a.tn = pt.b.tn
                       /\ pt.a.kw = pt.b.kw
                       /\ SubPatternMap(pt.a) = SubPatternMap(pt.b))

\* the keys of a record of optional values that are set
Given(kw) == {k \in DOMAIN kw : kw[k] # None}

C18_GetKeepsPattern ==
    [][op' \in {"pattern_get", "pattern_get_parameters"} =>
          /\ pt'.a = pt.a
          /\ (/\ op = op'
              /\ pt.res.changes_allowed = pt'.res.changes_allowed
              /\ pt.res.additions = pt'.res.additions) => pt'.res = pt.res]_vars

\* an override taken over a stored parameter, and a layout resolved for two
\* sub-patterns
C18_Witness ==
    /\ op = "pattern_get_parameters"
    /\ pt.res.exc = Ok
    /\ pt.a.kw.kwarg = Some(1)
    /\ pt.res.parameters.kwarg = Some(2)
    /\ Len(pt.a.sub_p) = 2

\* C19: a configured storage pattern written to a file and read back by its
\* name is the pattern that was written: the same typename and storage
\* parameters and the same sub-patterns under the same names in the same
\* order, whatever the names of the pattern and of its fields are
C19_WriteReadRoundTrip ==
    op = "pattern_read" =>
        /\ pt.res.exc = Ok
        /\ pt.b.tn = pt.a.tn
        /\ pt.b.kw = pt.a.kw
        /\ pt.b.sub_p = pt.a.sub_p

C21_ChangeOnEmpty ==
    [][(op' = "change" /\ Len(c) = 0) =>
       \A name \in CallNames(f), n \in ContentLens :
        Change(name, Content(name, n)) =>
            /\ exc' = Exc("TypeError", "message is empty")
            /\ Len(c') = 0]_vars

\* a change refused on the empty storage of two or more fields
C21_Witness ==
    /\ op = "change"
    /\ exc = Exc("TypeError", "message is empty")
    /\ Len(c) = 0
    /\ Len(f) >= 2

\* C22: the construction of a field structure reports the earliest violated
\* rule of: (a) stop == 0, (b) stop together with a positive bytes_expected,
\* (c) 0 > start > -bytes_expected, (d) the derivation of stop and
\* bytes_expected, (e) the derived bytes_expected no multiple of the word
\* size; it succeeds when none is violated
C22_ValidationOrder ==
    op = "construct" =>
        LET a == st.args
            RuleA == a.stop = Some(0)
            RuleB == a.stop # None /\ a.bytes_expected > 0
            RuleC == 0 > a.start /\ a.start > -a.bytes_expected
            RuleD == a.bytes_expected <= 0 /\ a.stop = None /\ a.start > 0
            RuleE == st.s.bytes_expected % a.ws # 0
        IN  /\ RuleA => st.exc.msg = "'stop' can't be equal to zero"
            /\ (~RuleA /\ RuleB)
                   => st.exc.msg
                          = "'bytes_expected' or 'stop' setting not allowed"
            /\ (~RuleA /\ ~RuleB /\ RuleC)
                   => st.exc.msg = "it will be out of bounds"
            /\ (~RuleA /\ ~RuleB /\ ~RuleC /\ RuleD)
                   => st.exc.err = "AssertionError"
            /\ (~RuleA /\ ~RuleB /\ ~RuleC /\ ~RuleD /\ RuleE)
                   => st.exc.msg
                      = "'bytes_expected' does not match an integer word count"
            /\ (~RuleA /\ ~RuleB /\ ~RuleC /\ ~RuleD /\ ~RuleE)
                   => st.exc = Ok

\* stop=0 with bytes_expected=3 and two-byte words: three rules violated,
\* the zero stop reported
C22_Witness ==
    /\ op = "construct"
    /\ st.args.stop = Some(0) /\ st.args.bytes_expected = 3 /\ st.args.ws = 2
    /\ st.exc = Exc("ValueError", "'stop' can't be equal to zero")

\* the bytes of a sequence
Bytes(s) == {s[i] : i \in 1..Len(s)}

C24_SendReturnsValidated ==
    con.pc = "returned" =>
        /\ con.ans.from = "dst"
        /\ ~con.ans.empty
        /\ ~con.ans.emark
        /\ \A k \in 1..Len(con.ans.codes) : con.ans.codes[k] = "OK"

\* C24 (amended): the response _send returns was received from msg.dst, is
\* not empty and has no code but OK; it carries the error mark only if the
\* mark is not looked for in the bytes and the reply has response codes,
\* which then decide alone
C24_SendReturnsValidatedAmended ==
    con.pc = "returned" =>
        /\ con.ans.from = "dst"
        /\ ~con.ans.empty
        /\ \A k \in 1..Len(con.ans.codes) : con.ans.codes[k] = "OK"
        /\ con.ans.emark =>
               (~con.bytes_required /\ Len(con.ans.codes) # 0)

\* a response returned by the second transmission, after a reply from
\* another address
C24_Witness ==
    /\ con.pc = "returned"
    /\ con.transmitted = 2
    /\ con.ans.codes = <<"OK", "OK">>
    /\ ~con.ans.emark

\* C25: a _send that was called comes to its end, by a response returned or
\* by ConnectionError, whatever the remote side does, and it calls
\* receive() and transmits only while the transmit timeout has not elapsed
C25_SendTerminates ==
    /\ (con.pc \in {"outer", "inner"}) ~> (con.pc \in {"returned", "raised"})
    /\ [][op' \in {"send_receive", "send_transmit"} =>
              (con'.pc = "raised" \/ con.tx_el < TxTo)]_vars

\* C26: add(key, value) of a key that is in the pattern raises KeyError and
\* changes no parameter, of a new key it puts the key in with the value;
\* pattern[key] = value of a key that is not in the pattern raises KeyError
\* and adds nothing, of a key that is in it changes the value of that key
\* alone; pop(key) takes that key alone out and returns its value; the set
\* of keys changes through add and pop alone
C26_EditablePattern ==
    [][LET key == ep'.key
           value == ep'.value
           had == key \in Given(ep.kw)
       IN  /\ (op' = "pattern_add" /\ had)
                  => (exc'.err = "KeyError" /\ ep'.kw = ep.kw)
           /\ (op' = "pattern_add" /\ ~had)
                  => (exc' = Ok /\ ep'.kw = [ep.kw EXCEPT ![key] = Some(value)])
           /\ (op' = "pattern_setitem" /\ ~had)
                  => (exc'.err = "KeyError" /\ ep'.kw = ep.kw)
           /\ (op' = "pattern_setitem" /\ had)
                  => (exc' = Ok /\ ep'.kw = [ep.kw EXCEPT ![key] = Some(value)])
           /\ (op' = "pattern_pop" /\ had)
                  => /\ exc' = Ok
                     /\ ep'.ret = ep.kw[key]
                     /\ ep'.kw = [ep.kw EXCEPT ![key] = None]
           /\ Given(ep'.kw) # Given(ep.kw)
                  => op' \in {"pattern_add", "pattern_pop"}]_vars

\* pattern[key] = value refused for a key that was popped, two other
\* parameters being in the pattern
C26_Witness ==
    /\ op = "pattern_setitem"
    /\ exc.err = "KeyError"
    /\ Given(ep.kw) = {"start", "stop"}
    /\ ep.key = "bytes_expected"

\* C27: once a StaticField holds a content that is not empty, set, extract
\* and reset_to_default leave it as it is: a set or an extract of another
\* content that is not empty raises ValueError
C27_StaticContentConstant ==
    [][(sf.content # << >>
        /\ op' \in {"static_set", "static_extract", "static_reset"}) =>
          /\ sf'.content = sf.content
          /\ (op' = "static_set" /\ sf'.arg # << >> /\ sf'.arg # sf.content)
                 => exc'.err = "ValueError"]_vars

\* C28: every constructed field structure has bytes_expected >= 0, and one
\* that is not dynamic has bytes_expected > 0, whatever start and stop the
\* construction accepted
C28_SizeNotNegative ==
    (op = "construct" /\ st.exc = Ok) =>
        /\ st.s.bytes_expected >= 0
        /\ ~is_dynamic(st.s) => st.s.bytes_expected > 0

\* C29: a field pattern and the field structure got from it agree on the
\* size: the pattern is dynamic exactly when the structure is, and for a
\* structure that is not dynamic the size of the pattern is its
\* bytes_expected
C29_PatternSizeAgrees ==
    (op = "field_get" /\ st.exc = Ok) =>
        /\ pattern_is_dynamic(pt.a.kw) = is_dynamic(st.s)
        /\ ~is_dynamic(st.s) => size(pt.a.kw) = st.s.bytes_expected

\* the buffer c is as long as the fixed fields of the storage need, and
\* every fixed field reads exactly its bytes_expected bytes of it
FixedFieldsWhole(fields, buf) ==
    /\ Len(buf) >= bytes_expected(fields)
    /\ \A i \in 1..Len(fields) :
           ~is_dynamic(fields[i])
               => Len(content(fields, buf, i)) = fields[i].bytes_expected

\* C30: a successful encode or change on a storage that is empty or whose
\* fixed fields are whole leaves it, when not empty, at least as long as
\* the sum of bytes_expected and with every fixed field of exactly
\* bytes_expected bytes, fields filled from their default included
C30_FixedFieldsWhole ==
    [][(op' \in {"encode", "change"} /\ exc' = Ok
        /\ (Len(c) = 0 \/ FixedFieldsWhole(f, c))
        /\ Len(c') # 0) =>
           FixedFieldsWhole(f, c')]_vars

=============================================================================
